---- MODULE Spec2Model ----
(***************************************************************************)
(* Model of the astro-admin-panel: the posts API routes (list, save,       *)
(* delete), the front-matter codec they contain, and the page component    *)
(* that keeps the post list, the selection and the editor.                 *)
(*                                                                         *)
(* Text is a sequence of one-character strings, so that the codec can be   *)
(* modelled character by character.                                        *)
(***************************************************************************)
EXTENDS Integers, Sequences, FiniteSets, TLC

(***************************************************************************)
(* Characters and text helpers (JavaScript String methods).                *)
(***************************************************************************)
NL == "\n"
DQ == "\""
SQ == "'"
SP == " "

\* the three characters of a front-matter marker line
Dashes == <<"-", "-", "-">>

\* String.prototype.startsWith
StartsWith(s, p) ==
    /\ Len(s) >= Len(p)
    /\ SubSeq(s, 1, Len(p)) = p

\* String.prototype.endsWith
EndsWith(s, p) ==
    /\ Len(s) >= Len(p)
    /\ SubSeq(s, Len(s) - Len(p) + 1, Len(s)) = p

\* String.prototype.indexOf for one character, 1-based; 0 when absent
IndexOf(s, c) ==
    IF \E i \in 1..Len(s) : s[i] = c
    THEN CHOOSE i \in 1..Len(s) : s[i] = c /\ \A j \in 1..(i - 1) : s[j] # c
    ELSE 0

\* String.prototype.trim (the only white space of a header line is the blank)
Trim(s) ==
    IF \A i \in 1..Len(s) : s[i] = SP
    THEN <<>>
    ELSE LET a == CHOOSE i \in 1..Len(s) : s[i] # SP /\ \A j \in 1..(i - 1) : s[j] = SP
             b == CHOOSE i \in 1..Len(s) : s[i] # SP /\ \A j \in (i + 1)..Len(s) : s[j] = SP
         IN SubSeq(s, a, b)

\* String.prototype.split on one character
RECURSIVE SplitOn(_, _)
SplitOn(s, c) ==
    LET i == IndexOf(s, c)
    IN IF i = 0 THEN <<s>>
       ELSE <<SubSeq(s, 1, i - 1)>> \o SplitOn(SubSeq(s, i + 1, Len(s)), c)

\* Array.prototype.join
RECURSIVE JoinWith(_, _)
JoinWith(ss, sep) ==
    IF Len(ss) = 0 THEN <<>>
    ELSE IF Len(ss) = 1 THEN ss[1]
    ELSE ss[1] \o sep \o JoinWith(Tail(ss), sep)

(***************************************************************************)
(* Front matter: an ordered mapping, a sequence of [key, value] entries in *)
(* insertion order.  A value is a string, [t |-> "str", v |-> text], or an *)
(* array, [t |-> "arr", v |-> <<elements>>], whose elements are values.    *)
(***************************************************************************)
Str(text) == [t |-> "str", v |-> text]
Arr(elems) == [t |-> "arr", v |-> elems]

\* a number, as JSON.parse returns one: v is its digits
Num(digits) == [t |-> "num", v |-> digits]

\* the text a template literal `${v}` gives for an array element: a string is
\* itself, a number its digits, a nested array its elements joined by commas
\* (Array toString)
RECURSIVE ElemText(_)
ElemText(e) ==
    IF e.t \in {"str", "num"} THEN e.v
    ELSE JoinWith([i \in 1..Len(e.v) |-> ElemText(e.v[i])], <<",">>)

\* one header line of the save route: key: "value" or key: ["v1", "v2"]
EncodeEntry(e) ==
    IF e.value.t = "arr"
    THEN e.key \o <<":", SP, "[">>
         \o JoinWith([i \in 1..Len(e.value.v) |-> <<DQ>> \o ElemText(e.value.v[i]) \o <<DQ>>],
                     <<",", SP>>)
         \o <<"]">>
    ELSE e.key \o <<":", SP, DQ>> \o e.value.v \o <<DQ>>

\* a header builder that would emit the marker lines for an empty mapping too
\* (the save route does not do this)
FrontmatterStrAlways(fm) ==
    Dashes \o <<NL>>
    \o JoinWith([i \in 1..Len(fm) |-> EncodeEntry(fm[i])], <<NL>>)
    \o <<NL>> \o Dashes \o <<NL, NL>>

\* frontmatterStr of the save route
FrontmatterStr(fm) ==
    IF Len(fm) > 0
    THEN Dashes \o <<NL>>
         \o JoinWith([i \in 1..Len(fm) |-> EncodeEntry(fm[i])], <<NL>>)
         \o <<NL>> \o Dashes \o <<NL, NL>>
    ELSE <<>>

\* fullContent of the save route: the encoder
Encode(fm, body) == FrontmatterStr(fm) \o body

(***************************************************************************)
(* The decoder of the list route: the header regular expression and        *)
(* parseSimpleYaml.                                                        *)
(***************************************************************************)

\* index of the first character at or after i that is not JSON white space
RECURSIVE SkipWs(_, _)
SkipWs(s, i) ==
    IF i <= Len(s) /\ s[i] = SP THEN SkipWs(s, i + 1) ELSE i

JsonFail == [ok |-> FALSE, val |-> Str(<<>>), next |-> 0]

\* index of the first character at or after i that is not the digit "1"
RECURSIVE SkipDigits(_, _)
SkipDigits(s, i) ==
    IF i <= Len(s) /\ s[i] = "1" THEN SkipDigits(s, i + 1) ELSE i

\* JSON.parse restricted to what a header line over the model's characters can
\* hold: string literals (no escapes: the model has no backslash), numbers
\* (the model's only digit is "1") and arrays, nested or not.  ParseValue reads
\* one value starting at i; ParseElems reads the rest of an array whose elements
\* so far are acc.
RECURSIVE ParseValue(_, _)
RECURSIVE ParseElems(_, _, _)
ParseValue(s, i0) ==
    LET i == SkipWs(s, i0)
    IN IF i > Len(s) THEN JsonFail
       ELSE IF s[i] = DQ
       THEN IF \E j \in (i + 1)..Len(s) : s[j] = DQ
            THEN LET j == CHOOSE j \in (i + 1)..Len(s) :
                              s[j] = DQ /\ \A k \in (i + 1)..(j - 1) : s[k] # DQ
                 IN [ok |-> TRUE, val |-> Str(SubSeq(s, i + 1, j - 1)), next |-> j + 1]
            ELSE JsonFail
       ELSE IF s[i] = "["
       THEN LET k == SkipWs(s, i + 1)
            IN IF k <= Len(s) /\ s[k] = "]"
               THEN [ok |-> TRUE, val |-> Arr(<<>>), next |-> k + 1]
               ELSE ParseElems(s, i + 1, <<>>)
       ELSE IF s[i] = "1"
       THEN LET j == SkipDigits(s, i)
            IN [ok |-> TRUE, val |-> Num(SubSeq(s, i, j - 1)), next |-> j]
       ELSE JsonFail
ParseElems(s, i, acc) ==
    LET e == ParseValue(s, i)
    IN IF ~e.ok THEN JsonFail
       ELSE LET k == SkipWs(s, e.next)
            IN IF k > Len(s) THEN JsonFail
               ELSE IF s[k] = "," THEN ParseElems(s, k + 1, Append(acc, e.val))
               ELSE IF s[k] = "]"
               THEN [ok |-> TRUE, val |-> Arr(Append(acc, e.val)), next |-> k + 1]
               ELSE JsonFail

\* JSON.parse(value): the whole text must be one value
JsonParse(s) ==
    LET r == ParseValue(s, 1)
    IN IF r.ok /\ SkipWs(s, r.next) > Len(s) THEN r ELSE JsonFail

\* result[key] = value on an ordered mapping
SetKey(result, key, value) ==
    IF \E i \in 1..Len(result) : result[i].key = key
    THEN [i \in 1..Len(result) |->
             IF result[i].key = key THEN [key |-> key, value |-> value] ELSE result[i]]
    ELSE Append(result, [key |-> key, value |-> value])

\* whether a text starts and ends with the same quote character
Quoted(value) ==
    \/ (StartsWith(value, <<DQ>>) /\ EndsWith(value, <<DQ>>))
    \/ (StartsWith(value, <<SQ>>) /\ EndsWith(value, <<SQ>>))

\* a quote remover that would take off a second layer of quotes too
\* (parseSimpleYaml does not do this)
StripQuotesTwice(value) ==
    LET once == IF Quoted(value) THEN SubSeq(value, 2, Len(value) - 1) ELSE value
    IN IF Quoted(value) /\ Quoted(once) THEN SubSeq(once, 2, Len(once) - 1) ELSE once

\* "Remove quotes if present": one layer of double or single quotes
StripQuotes(value) ==
    IF \/ (StartsWith(value, <<DQ>>) /\ EndsWith(value, <<DQ>>))
       \/ (StartsWith(value, <<SQ>>) /\ EndsWith(value, <<SQ>>))
    THEN SubSeq(value, 2, Len(value) - 1)
    ELSE value

\* "Try to parse as array": the parsed array, or the string when parsing fails
ParseArrayValue(value) ==
    IF StartsWith(value, <<"[">>) /\ EndsWith(value, <<"]">>)
    THEN LET r == JsonParse(value) IN IF r.ok THEN r.val ELSE Str(value)
    ELSE Str(value)

\* the body of the loop of parseSimpleYaml for one line
ParseLine(result, line) ==
    LET trimmed == Trim(line)
        colonIndex == IndexOf(trimmed, ":")
    IN IF Len(trimmed) > 0 /\ ~StartsWith(trimmed, <<"#">>) /\ colonIndex > 1
       THEN LET key == Trim(SubSeq(trimmed, 1, colonIndex - 1))
                value == Trim(SubSeq(trimmed, colonIndex + 1, Len(trimmed)))
            IN SetKey(result, key, ParseArrayValue(StripQuotes(value)))
       ELSE result

RECURSIVE ParseLines(_, _)
ParseLines(result, lines) ==
    IF Len(lines) = 0 THEN result
    ELSE ParseLines(ParseLine(result, Head(lines)), Tail(lines))

ParseSimpleYaml(yamlText) == ParseLines(<<>>, SplitOn(yamlText, NL))

\* content.match(/^---\n([\s\S]*?)\n---\n([\s\S]*)$/): the lazy first group ends
\* at the first closing marker after the opening one
FrontmatterMatch(content) ==
    LET closing == <<NL>> \o Dashes \o <<NL>>
        J == {j \in 5..(Len(content) - 4) : SubSeq(content, j, j + 4) = closing}
    IN IF StartsWith(content, Dashes \o <<NL>>) /\ J # {}
       THEN LET j == CHOOSE j \in J : \A k \in J : j <= k
            IN [matched |-> TRUE,
                g1 |-> SubSeq(content, 5, j - 1),
                g2 |-> SubSeq(content, j + 5, Len(content))]
       ELSE [matched |-> FALSE, g1 |-> <<>>, g2 |-> <<>>]

\* the decoder: frontmatter and markdownContent of the list route
Decode(content) ==
    LET m == FrontmatterMatch(content)
    IN IF m.matched
       THEN [frontmatter |-> ParseSimpleYaml(m.g1), content |-> m.g2]
       ELSE [frontmatter |-> <<>>, content |-> content]

(***************************************************************************)
(* Bounds of the model.                                                    *)
(***************************************************************************)
\* requests the page may have in flight at once
MaxInFlight == 3
\* the server clock runs from 0 to MaxClock
MaxClock == 1
\* the longest editor text the model lets the user save
MaxBodyLen == 2
\* requests the page issues in one run of the model
MaxIssued == 2
\* saves issued in one run of the push-only specification
MaxPushed == 3
\* pushes by another writer in one run of the model
MaxExternal == 1

(***************************************************************************)
(* The repository directory src/content/posts of the Git provider, and the *)
(* texts the model draws from.                                             *)
(***************************************************************************)
FileA == <<"a", ".", "m", "d">>
FileB == <<"b", "%", ".", "m", "d", "x">>
FileC == <<"c", ".", "m", "d">>
FileN == <<"n", ".", "t", "x", "t">>

\* the directory entries in the order the provider lists them (by name)
DirOrder == <<FileA, FileB, FileC, FileN>>
DirNames == {DirOrder[i] : i \in 1..Len(DirOrder)}

\* file.name.endsWith('.md') || file.name.endsWith('.mdx')
IsMarkdown(name) ==
    \/ EndsWith(name, <<".", "m", "d">>)
    \/ EndsWith(name, <<".", "m", "d", "x">>)

PostNames == {n \in DirNames : IsMarkdown(n)}

\* path: `src/content/posts/${decodedFilename}`
PostPath(name) == <<"src/content/posts/">> \o name

\* texts the user types into the editor
TypedTexts == {<<>>, <<"p">>}

\* file texts another writer of the repository pushes
ExternalRaws == {<<"e">>}

\* the repository when the page is first opened
InitialRemote ==
    [n \in DirNames |->
        IF n = FileA
        THEN [exists |-> TRUE,
              raw |-> Encode(<<[key |-> <<"t">>, value |-> Str(<<"A">>)]>>, <<"x">>)]
        ELSE IF n = FileB THEN [exists |-> TRUE, raw |-> <<"y">>]
        ELSE IF n = FileN THEN [exists |-> TRUE, raw |-> <<"z">>]
        ELSE [exists |-> FALSE, raw |-> <<>>]]

\* the files another writer pushes to
ExternalNames == {FileA, FileB}

\* the provider's content SHA: the blob hash, a function of the file's bytes
\* (taken to be collision free)
Sha(raw) == <<"sha1:">> \o raw
\* sha: undefined
NoSha == <<>>

(***************************************************************************)
(* State.                                                                  *)
(***************************************************************************)
VARIABLES
    remote,         \* the provider's files: name -> [exists, raw]
    now,            \* the server clock (new Date())
    posts,          \* Home: useState<Post[]>
    selectedPost,   \* Home: useState<Post | null>, NoPost for null
    loading,        \* Home: useState(false)
    error,          \* Home: useState<string | null>, "null" for null
    successMessage, \* Home: useState<string | null>, "null" for null
    edContent,      \* ToastEditor: useState(initialContent)
    edText,         \* ToastEditor: the markdown held by the editor widget
    reqs,           \* the requests in flight, each with its handler's closure
    budget,         \* requests the page may still issue in this run
    pushes,         \* pushes by another writer so far (bounded by MaxExternal)
    hist,           \* history of the save and delete routes, for stating claims
    cFm,            \* codec check: the front matter given to the encoder
    cBody,          \* codec check: the body given to the encoder
    cRaw,           \* codec check: the encoded text
    cOut,           \* codec check: what the decoder returned
    cLines,         \* decoder check: the header lines of the document
    cPc             \* codec check: position

\* the state of Home and ToastEditor
pageVars == <<posts, selectedPost, loading, error, successMessage, edContent, edText>>
syncVars == <<remote, now, posts, selectedPost, loading, error, successMessage,
              edContent, edText, reqs, budget, pushes, hist>>
codecVars == <<cFm, cBody, cRaw, cOut, cLines, cPc>>
vars == <<remote, now, posts, selectedPost, loading, error, successMessage,
          edContent, edText, reqs, budget, pushes, hist, cFm, cBody, cRaw, cOut, cLines,
          cPc>>

\* selectedPost === null
NoPost ==
    [filename |-> <<>>, path |-> <<>>, content |-> <<>>, frontmatter |-> <<>>,
     sha |-> NoSha, size |-> 0, lastModified |-> 0]

NoResp == [status |-> 0, error |-> "", details |-> "", sha |-> NoSha, posts |-> <<>>]

\* a free request slot.  A request in flight holds the closure of the handler
\* that awaits it (sp: selectedPost, ps: posts, post: the handler's argument,
\* content), the route's locals (session: "token" or "none" once read,
\* currentSha, probe, names and listing: the directory listing) and the response.
Idle ==
    [kind |-> "none", stage |-> "idle", sp |-> NoPost, ps |-> <<>>, post |-> NoPost,
     target |-> <<>>, content |-> <<>>, session |-> "unread", currentSha |-> NoSha,
     probe |-> "none", names |-> <<>>, listing |-> <<>>, resp |-> NoResp]

\* getServerSession: the request's record with the session read
WithSession(r, auth) == [r EXCEPT !.session = IF auth THEN "token" ELSE "none"]

Slots == 1..MaxInFlight
FreeSlots == {s \in Slots : reqs[s].kind = "none"}
\* a new request takes the lowest free slot
NewSlot == CHOOSE s \in FreeSlots : \A t \in FreeSlots : s <= t
Quiescent == \A s \in Slots : reqs[s].kind = "none"

\* hist: the tokens the save route has returned, the last successful write or
\* delete per file with its commit message, and the files whose save the route
\* failed
NoHist ==
    [tokens |-> {},
     last |-> [n \in DirNames |->
                  [kind |-> "none", content |-> <<>>, sha |-> NoSha, message |-> <<>>]],
     failed |-> {}]

HistPut(h, f, content, sha, message) ==
    [h EXCEPT !.tokens = @ \cup {sha},
              !.last[f] = [kind |-> "put", content |-> content, sha |-> sha,
                           message |-> message]]

HistDelete(h, f, message) ==
    [h EXCEPT !.last[f] = [kind |-> "deleted", content |-> <<>>, sha |-> NoSha,
                           message |-> message]]

HistFailed(h, f) == [h EXCEPT !.failed = @ \cup {f}]

(***************************************************************************)
(* The Git provider's content API, as the routes call it.                  *)
(***************************************************************************)
\* createOrUpdateFileContents / deleteFile: the provider takes a write only
\* with the current blob SHA of an existing file, or with none for a new one
ProviderAccepts(file, sha) ==
    IF file.exists THEN sha = Sha(file.raw) ELSE sha = NoSha

\* encodeURIComponent / decodeURIComponent: of the model's characters only
\* "%" is escaped
RECURSIVE EncodeURIComponent(_)
EncodeURIComponent(name) ==
    IF Len(name) = 0 THEN <<>>
    ELSE (IF Head(name) = "%" THEN <<"%", "2", "5">> ELSE <<Head(name)>>)
         \o EncodeURIComponent(Tail(name))

RECURSIVE DecodeURIComponent(_)
DecodeURIComponent(name) ==
    IF Len(name) = 0 THEN <<>>
    ELSE IF StartsWith(name, <<"%", "2", "5">>)
    THEN <<"%">> \o DecodeURIComponent(SubSeq(name, 4, Len(name)))
    ELSE <<Head(name)>> \o DecodeURIComponent(Tail(name))

\* response.ok
RespOk(resp) == resp.status >= 200 /\ resp.status <= 299

\* NextResponse.json({ error, details }, { status })
ErrResp(status, msg, details) ==
    [status |-> status, error |-> msg, details |-> details, sha |-> NoSha,
     posts |-> <<>>]

OkResp(sha, list) ==
    [status |-> 200, error |-> "", details |-> "", sha |-> sha, posts |-> list]

\* fetch rejects: the response is lost
NetErr == ErrResp(0, "Failed to fetch", "")

\* a request's record with its route finished and resp as the answer
Answer(r, resp) == [r EXCEPT !.stage = "responded", !.resp = resp]

(***************************************************************************)
(* GET /api/posts                                                          *)
(***************************************************************************)
\* the post record the list route builds for one fetched file
PostRecord(name, raw, time) ==
    LET d == Decode(raw)
    IN [filename |-> name, path |-> PostPath(name), content |-> d.content,
        frontmatter |-> d.frontmatter, sha |-> Sha(raw), size |-> Len(raw),
        lastModified |-> time]

\* a listing that would keep every file of the directory (the routes do not
\* do this)
ListedNames(rem) ==
    LET Listed(n) == rem[n].exists
    IN SelectSeq(DirOrder, Listed)

\* files.filter(...): the listed names that are Markdown files
MarkdownNames(rem) ==
    LET Listed(n) == rem[n].exists /\ IsMarkdown(n)
    IN SelectSeq(DirOrder, Listed)

\* a list that would keep a null entry for each file whose fetch failed (the
\* routes filter them out)
PostsWithNulls(names, failed, rem, time) ==
    [i \in 1..Len(names) |->
        IF rem[names[i]].exists /\ names[i] \notin failed
        THEN PostRecord(names[i], rem[names[i]].raw, time)
        ELSE NoPost]

\* Promise.all(...map(...)) then filter(post => post !== null): one record per
\* listed file whose own fetch succeeded (failed: the names whose fetch threw)
ValidPosts(names, failed, rem, time) ==
    LET Fetched(n) == rem[n].exists /\ n \notin failed
        kept == SelectSeq(names, Fetched)
    IN [i \in 1..Len(kept) |-> PostRecord(kept[i], rem[kept[i]].raw, time)]

\* session check and directory listing
ServeList1(s) ==
    /\ reqs[s].kind = "list" /\ reqs[s].stage = "sent"
    /\ \E auth \in BOOLEAN, dir \in {"ok", "404", "error"} :
          LET r == WithSession(reqs[s], auth)
          IN reqs' = [reqs EXCEPT ![s] =
                IF ~auth
                THEN Answer(r, ErrResp(401, "Unauthorized - No session or access token", ""))
                ELSE IF dir = "404"
                THEN Answer(r, ErrResp(404, "Posts directory not found in repository", ""))
                ELSE IF dir = "error"
                THEN Answer(r, ErrResp(500, "Failed to fetch posts", ""))
                ELSE [r EXCEPT !.stage = "listed", !.names = MarkdownNames(remote)]]
    /\ UNCHANGED <<remote, now, budget, pushes, hist>>
    /\ UNCHANGED pageVars
    /\ UNCHANGED codecVars

\* the per-file fetches (all read at the same server time) and the response
ServeList2(s) ==
    /\ reqs[s].kind = "list" /\ reqs[s].stage = "listed"
    /\ \E failed \in SUBSET {reqs[s].names[i] : i \in 1..Len(reqs[s].names)} :
          reqs' = [reqs EXCEPT ![s] =
              Answer(@, OkResp(NoSha, ValidPosts(reqs[s].names, failed, remote, now)))]
    /\ UNCHANGED <<remote, now, budget, pushes, hist>>
    /\ UNCHANGED pageVars
    /\ UNCHANGED codecVars

(***************************************************************************)
(* GET /api/posts, the handler with the local-file fallback (the route     *)
(* file holds two GET handlers; this is the first).                        *)
(***************************************************************************)
\* sha: 'local' ("No SHA for local files")
LocalSha == <<"local">>

\* the posts directory of the server's own checkout, read by the fallback
LocalCheckout == InitialRemote

\* matter(content) of gray-matter, on the files of the model (a header of
\* key: "string" lines, or none): the header's mapping and the text after the
\* closing marker line, as the header regular expression gives them
Matter(content) == Decode(content)

\* the directory listing's entries for the Markdown files: file.sha, file.size
ListingOf(rem) ==
    LET names == MarkdownNames(rem)
    IN [i \in 1..Len(names) |->
           [sha |-> Sha(rem[names[i]].raw), size |-> Len(rem[names[i]].raw)]]

\* posts.filter(Boolean) of the GitHub path: sha and size are the listing's,
\* lastModified is fileData.last_modified, which the content API does not
\* return (undefined, here -1)
GithubPosts(names, listing, failed, rem) ==
    LET I == {i \in 1..Len(names) : rem[names[i]].exists /\ names[i] \notin failed}
        Kept(i) == i \in I
        kept == SelectSeq([i \in 1..Len(names) |-> i], Kept)
    IN [k \in 1..Len(kept) |->
           LET n == names[kept[k]]
               d == Matter(rem[n].raw)
           IN [filename |-> n, path |-> PostPath(n), content |-> d.content,
               frontmatter |-> d.frontmatter, sha |-> listing[kept[k]].sha,
               size |-> listing[kept[k]].size, lastModified |-> -1]]

\* the posts of the fallback: the local Markdown files that could be read, with
\* sha 'local' and the file's mtime (here 0)
LocalPosts(failed) ==
    LET Read(n) == LocalCheckout[n].exists /\ n \notin failed
        kept == SelectSeq(MarkdownNames(LocalCheckout), Read)
    IN [i \in 1..Len(kept) |->
           LET d == Matter(LocalCheckout[kept[i]].raw)
           IN [filename |-> kept[i], path |-> PostPath(kept[i]), content |-> d.content,
               frontmatter |-> d.frontmatter, sha |-> LocalSha,
               size |-> Len(LocalCheckout[kept[i]].raw), lastModified |-> 0]]

\* the answers of the fallback, all with status 200: the local posts, or no
\* posts and an error text when the directory is missing or cannot be read
LocalAnswers ==
    {OkResp(NoSha, LocalPosts(failed)) : failed \in SUBSET PostNames}
    \cup {[OkResp(NoSha, <<>>) EXCEPT !.error = e] :
             e \in {"No posts directory found", "EACCES"}}

\* session check, then the directory listing when there is a token; without a
\* token, or when the listing throws, the fallback
ServeFallback1(s) ==
    /\ reqs[s].kind = "list" /\ reqs[s].stage = "sent"
    /\ \E auth \in BOOLEAN, dir \in {"ok", "error"}, answer \in LocalAnswers :
          LET r == WithSession(reqs[s], auth)
          IN reqs' = [reqs EXCEPT ![s] =
                IF auth /\ dir = "ok"
                THEN [r EXCEPT !.stage = "listedFallback",
                               !.names = MarkdownNames(remote),
                               !.listing = ListingOf(remote)]
                ELSE IF auth
                THEN Answer([r EXCEPT !.probe = "error"], answer)
                ELSE Answer(r, answer)]
    /\ UNCHANGED <<remote, now, budget, pushes, hist>>
    /\ UNCHANGED pageVars
    /\ UNCHANGED codecVars

\* the per-file fetches of the GitHub path and the response
ServeFallback2(s) ==
    /\ reqs[s].kind = "list" /\ reqs[s].stage = "listedFallback"
    /\ \E failed \in SUBSET {reqs[s].names[i] : i \in 1..Len(reqs[s].names)} :
          reqs' = [reqs EXCEPT ![s] =
              Answer(@, OkResp(NoSha,
                  GithubPosts(reqs[s].names, reqs[s].listing, failed, remote)))]
    /\ UNCHANGED <<remote, now, budget, pushes, hist>>
    /\ UNCHANGED pageVars
    /\ UNCHANGED codecVars

(***************************************************************************)
(* PUT /api/posts/[filename]                                               *)
(***************************************************************************)
\* what a call of the provider may do instead of answering: error.message of
\* a rate-limit error and of any other provider or transport error
ProviderFailures == {"API rate limit exceeded", "Server Error"}
ProviderOutcomes == {"ok"} \cup ProviderFailures

\* a commit message that would name the file as the URL encodes it (the route
\* does not do this)
UpdateRaw(r) == <<"Update post: ">> \o r.target

\* message: `Update post: ${decodedFilename}`
UpdateMessage(r) == <<"Update post: ">> \o DecodeURIComponent(r.target)

\* the catch block of the save route
SaveFailed(details) == ErrResp(500, "Failed to save post", details)

\* a probe that would take every error for "no such file" and go on to create
\* the file (the route does this for a 404 only)
ServePut1AnyErrorCreates(s) ==
    /\ reqs[s].kind = "save" /\ reqs[s].stage = "sent"
    /\ \E auth \in BOOLEAN, probe \in ProviderOutcomes :
          LET f == DecodeURIComponent(reqs[s].target)
              failing == ~auth \/ Len(reqs[s].content) = 0
              r == WithSession(reqs[s], auth)
          IN /\ reqs' = [reqs EXCEPT ![s] =
                    IF ~auth THEN Answer(r, ErrResp(401, "Unauthorized", ""))
                    ELSE IF Len(reqs[s].content) = 0
                    THEN Answer(r, ErrResp(400, "Content is required", ""))
                    ELSE IF probe # "ok"
                    THEN [r EXCEPT !.stage = "probed", !.probe = "error",
                              !.currentSha = NoSha]
                    ELSE IF remote[f].exists
                    THEN [r EXCEPT !.stage = "probed", !.probe = "found",
                              !.currentSha = Sha(remote[f].raw)]
                    ELSE [r EXCEPT !.stage = "probed", !.probe = "absent",
                              !.currentSha = NoSha]]
             /\ hist' = IF failing THEN HistFailed(hist, f) ELSE hist
    /\ UNCHANGED <<remote, now, budget, pushes>>
    /\ UNCHANGED pageVars
    /\ UNCHANGED codecVars

\* session check, body check and the probe for the current SHA
ServePut1(s) ==
    /\ reqs[s].kind = "save" /\ reqs[s].stage = "sent"
    /\ \E auth \in BOOLEAN, probe \in ProviderOutcomes :
          LET f == DecodeURIComponent(reqs[s].target)
              failing == ~auth \/ Len(reqs[s].content) = 0 \/ probe # "ok"
              r == WithSession(reqs[s], auth)
          IN /\ reqs' = [reqs EXCEPT ![s] =
                    IF ~auth THEN Answer(r, ErrResp(401, "Unauthorized", ""))
                    ELSE IF Len(reqs[s].content) = 0
                    THEN Answer(r, ErrResp(400, "Content is required", ""))
                    ELSE IF probe # "ok"
                    THEN Answer([r EXCEPT !.probe = "error"], SaveFailed(probe))
                    ELSE IF remote[f].exists
                    THEN [r EXCEPT !.stage = "probed", !.probe = "found",
                              !.currentSha = Sha(remote[f].raw)]
                    ELSE [r EXCEPT !.stage = "probed", !.probe = "absent",
                              !.currentSha = NoSha]]
             /\ hist' = IF failing THEN HistFailed(hist, f) ELSE hist
    /\ UNCHANGED <<remote, now, budget, pushes>>
    /\ UNCHANGED pageVars
    /\ UNCHANGED codecVars

\* createOrUpdateFileContents with the probed SHA, and the response
ServePut2(s) ==
    /\ reqs[s].kind = "save" /\ reqs[s].stage = "probed"
    /\ \E write \in ProviderOutcomes :
          LET f == DecodeURIComponent(reqs[s].target)
              fullContent == Encode(reqs[s].sp.frontmatter, reqs[s].content)
          IN IF write = "ok" /\ ProviderAccepts(remote[f], reqs[s].currentSha)
             THEN /\ remote' = [remote EXCEPT ![f] = [exists |-> TRUE, raw |-> fullContent]]
                  /\ reqs' = [reqs EXCEPT ![s] = Answer(@, OkResp(Sha(fullContent), <<>>))]
                  /\ hist' = HistPut(hist, f, reqs[s].content, Sha(fullContent),
                                     UpdateMessage(reqs[s]))
             ELSE /\ remote' = remote
                  /\ reqs' = [reqs EXCEPT ![s] =
                         Answer(@, SaveFailed(IF write = "ok" THEN "Conflict" ELSE write))]
                  /\ hist' = HistFailed(hist, f)
    /\ UNCHANGED <<now, budget, pushes>>
    /\ UNCHANGED pageVars
    /\ UNCHANGED codecVars

(***************************************************************************)
(* DELETE /api/posts/[filename]                                            *)
(***************************************************************************)
\* message: `Delete post: ${decodedFilename}`
DeleteMessage(r) == <<"Delete post: ">> \o DecodeURIComponent(r.target)

\* the catch block of the delete route
DeleteFailed(details) == ErrResp(500, "Failed to delete post", details)

\* the answer to a delete whose probe finds no file: getContent throws a 404,
\* which the catch block answers
DeleteAbsentResponse == DeleteFailed("Not Found")

\* session check and the probe for the current SHA.  (The route's own 404,
\* 'File not found', answers a probe that returns a directory listing; the
\* model's posts directory holds files only.)
ServeDelete1(s) ==
    /\ reqs[s].kind = "delete" /\ reqs[s].stage = "sent"
    /\ \E auth \in BOOLEAN, probe \in ProviderOutcomes :
          LET f == DecodeURIComponent(reqs[s].target)
              r == WithSession(reqs[s], auth)
          IN reqs' = [reqs EXCEPT ![s] =
                IF ~auth THEN Answer(r, ErrResp(401, "Unauthorized", ""))
                ELSE IF probe # "ok"
                THEN Answer([r EXCEPT !.probe = "error"], DeleteFailed(probe))
                ELSE IF remote[f].exists
                THEN [r EXCEPT !.stage = "probed", !.probe = "found",
                          !.currentSha = Sha(remote[f].raw)]
                ELSE Answer([r EXCEPT !.probe = "absent"], DeleteAbsentResponse)]
    /\ UNCHANGED <<remote, now, budget, pushes, hist>>
    /\ UNCHANGED pageVars
    /\ UNCHANGED codecVars

\* deleteFile with the probed SHA, and the response
ServeDelete2(s) ==
    /\ reqs[s].kind = "delete" /\ reqs[s].stage = "probed"
    /\ \E write \in ProviderOutcomes :
          LET f == DecodeURIComponent(reqs[s].target)
          IN IF /\ write = "ok"
                /\ remote[f].exists
                /\ ProviderAccepts(remote[f], reqs[s].currentSha)
             THEN /\ remote' = [remote EXCEPT ![f] = [exists |-> FALSE, raw |-> <<>>]]
                  /\ reqs' = [reqs EXCEPT ![s] = Answer(@, OkResp(NoSha, <<>>))]
                  /\ hist' = HistDelete(hist, f, DeleteMessage(reqs[s]))
             ELSE /\ remote' = remote
                  /\ reqs' = [reqs EXCEPT ![s] =
                         Answer(@, DeleteFailed(IF write = "ok" THEN "Conflict" ELSE write))]
                  /\ hist' = hist
    /\ UNCHANGED <<now, budget, pushes>>
    /\ UNCHANGED pageVars
    /\ UNCHANGED codecVars

\* fetch rejects: the response never reaches the page.  (A request lost on its
\* way is, for the page and the repository, a lost 401 answer.)
NetFail(s) ==
    /\ reqs[s].stage = "responded"
    /\ reqs[s].resp # NetErr
    /\ reqs' = [reqs EXCEPT ![s] = Answer(@, NetErr)]
    /\ UNCHANGED <<remote, now, budget, pushes, hist>>
    /\ UNCHANGED pageVars
    /\ UNCHANGED codecVars

(***************************************************************************)
(* ToastEditor.  It is mounted while a post is selected; its widget is     *)
(* taken to have loaded (editorRef.current is set) whenever it is mounted. *)
(***************************************************************************)
\* the editor's [content, text] after a render that changed the selection from
\* oldSel to newSel: mount, unmount, or the effect on [initialContent]
EditorAfter(oldSel, newSel, content, text) ==
    IF newSel = NoPost THEN [content |-> <<>>, text |-> <<>>]
    ELSE IF oldSel = NoPost THEN [content |-> newSel.content, text |-> newSel.content]
    ELSE IF newSel.content # oldSel.content /\ newSel.content # content
    THEN [content |-> newSel.content, text |-> newSel.content]
    ELSE [content |-> content, text |-> text]

\* setSelectedPost(sel) and the render that follows
SetSelectedPost(sel) ==
    /\ selectedPost' = sel
    /\ LET e == EditorAfter(selectedPost, sel, edContent, edText)
       IN edContent' = e.content /\ edText' = e.text

(***************************************************************************)
(* Home: the page's handlers.  A handler runs to its fetch in one step and *)
(* completes in a later one, with the posts and selectedPost of the render *)
(* that created it (its closure).                                          *)
(***************************************************************************)
\* the message the catch block shows: errorData.error of a failed response,
\* err.message of a rejected fetch
ErrorMessage(resp) == resp.error

\* a handler up to its await fetch(...): setLoading(true), setError(null)
StartRequest(kind, post, target, content) ==
    /\ FreeSlots # {}
    /\ budget > 0
    /\ budget' = budget - 1
    /\ reqs' = [reqs EXCEPT ![NewSlot] =
           [Idle EXCEPT !.kind = kind, !.stage = "sent", !.sp = selectedPost,
                        !.ps = posts, !.post = post, !.target = target,
                        !.content = content]]
    /\ loading' = TRUE
    /\ error' = "null"
    /\ UNCHANGED <<remote, now, pushes, hist>>
    /\ UNCHANGED <<posts, selectedPost, successMessage, edContent, edText>>
    /\ UNCHANGED codecVars

\* onSelectPost={setSelectedPost}: a click on the i-th post of the list
SelectPost(i) ==
    /\ i \in 1..Len(posts)
    /\ SetSelectedPost(posts[i])
    /\ UNCHANGED <<remote, now, reqs, budget, pushes, hist>>
    /\ UNCHANGED <<posts, loading, error, successMessage>>
    /\ UNCHANGED codecVars

\* the user replaces the editor's text
TypeText(t) ==
    /\ selectedPost # NoPost
    /\ t # edText
    /\ edText' = t
    /\ UNCHANGED <<remote, now, reqs, budget, pushes, hist>>
    /\ UNCHANGED <<posts, selectedPost, loading, error, successMessage, edContent>>
    /\ UNCHANGED codecVars

\* Save Post: handleSave, then handleSavePost(content) up to its fetch
ClickSave ==
    /\ selectedPost # NoPost
    /\ Len(edText) <= MaxBodyLen
    /\ StartRequest("save", selectedPost, EncodeURIComponent(selectedPost.filename),
                    edText)

\* handleDeletePost(post) for the i-th post of the list, up to its fetch
ClickDelete(i) ==
    /\ i \in 1..Len(posts)
    /\ StartRequest("delete", posts[i], EncodeURIComponent(posts[i].filename), <<>>)

\* Refresh Posts (disabled while loading): fetchPosts up to its fetch
RefreshClick ==
    /\ ~loading
    /\ StartRequest("list", NoPost, <<>>, <<>>)

\* useEffect on [session]: fetchPosts when the session object changes
SessionEffect ==
    /\ budget > 0
    /\ StartRequest("list", NoPost, <<>>, <<>>)

\* setPosts(data.posts || [])
FetchedPosts(resp) == resp.posts

\* a fetchPosts that would also re-select the refreshed entry of the selected
\* post (the page does not do this)
ListReselected(r) ==
    /\ posts' = FetchedPosts(r.resp)
    /\ LET same == {i \in 1..Len(r.resp.posts) :
                       r.resp.posts[i].filename = selectedPost.filename}
       IN IF same # {}
          THEN SetSelectedPost(r.resp.posts[CHOOSE i \in same : TRUE])
          ELSE UNCHANGED <<selectedPost, edContent, edText>>
    /\ UNCHANGED <<error, successMessage>>

\* a fetchPosts that would add the fetched posts to the list it has (the page
\* does not do this)
ListAppended(r) ==
    /\ posts' = posts \o FetchedPosts(r.resp)
    /\ UNCHANGED <<selectedPost, edContent, edText, error, successMessage>>

\* fetchPosts after a response that is ok: the selection and the editor are
\* not touched
ListSucceeded(r) ==
    /\ posts' = FetchedPosts(r.resp)
    /\ UNCHANGED <<selectedPost, edContent, edText, error, successMessage>>

\* fetchPosts after its fetch
CompleteList(s) ==
    /\ reqs[s].kind = "list" /\ reqs[s].stage = "responded"
    /\ IF RespOk(reqs[s].resp)
       THEN ListSucceeded(reqs[s])
       ELSE /\ error' = ErrorMessage(reqs[s].resp)
            /\ UNCHANGED <<posts, selectedPost, edContent, edText, successMessage>>
    /\ loading' = FALSE
    /\ reqs' = [reqs EXCEPT ![s] = Idle]
    /\ UNCHANGED <<remote, now, budget, pushes, hist>>
    /\ UNCHANGED codecVars

\* {...selectedPost, content, sha: result.sha}
SavedSelected(sp, content, sha) == [sp EXCEPT !.content = content, !.sha = sha]

\* a list update that would take the saved content and keep the old sha (the
\* page does not do this)
SavedPostsOldSha(ps, filename, content, sha) ==
    [i \in 1..Len(ps) |->
        IF ps[i].filename = filename
        THEN [ps[i] EXCEPT !.content = content]
        ELSE ps[i]]

\* posts.map(post => post.filename === selectedPost.filename
\*                     ? {...post, content, sha: result.sha} : post)
SavedPosts(ps, filename, content, sha) ==
    [i \in 1..Len(ps) |->
        IF ps[i].filename = filename
        THEN [ps[i] EXCEPT !.content = content, !.sha = sha]
        ELSE ps[i]]

\* handleSavePost after a response that is ok
SaveSucceeded(r) ==
    /\ SetSelectedPost(SavedSelected(r.sp, r.content, r.resp.sha))
    /\ posts' = SavedPosts(r.ps, r.sp.filename, r.content, r.resp.sha)
    /\ successMessage' = "Post saved successfully!"
    /\ error' = error

\* a catch block that would keep the submitted content as the post's content
\* (the page does not do this)
SaveErroredOptimistic(r) ==
    /\ error' = ErrorMessage(r.resp)
    /\ SetSelectedPost(SavedSelected(r.sp, r.content, r.sp.sha))
    /\ UNCHANGED <<posts, successMessage>>

\* handleSavePost after a failed response or a rejected fetch: the catch block
SaveErrored(r) ==
    /\ error' = ErrorMessage(r.resp)
    /\ UNCHANGED <<posts, selectedPost, edContent, edText, successMessage>>

\* handleSavePost after its fetch
CompleteSave(s) ==
    /\ reqs[s].kind = "save" /\ reqs[s].stage = "responded"
    /\ IF RespOk(reqs[s].resp) THEN SaveSucceeded(reqs[s]) ELSE SaveErrored(reqs[s])
    /\ loading' = FALSE
    /\ reqs' = [reqs EXCEPT ![s] = Idle]
    /\ UNCHANGED <<remote, now, budget, pushes, hist>>
    /\ UNCHANGED codecVars

\* posts.filter(p => p.filename !== post.filename)
DeletedPosts(ps, filename) ==
    LET Keep(p) == p.filename # filename
    IN SelectSeq(ps, Keep)

\* handleDeletePost after a response that is ok
DeleteSucceeded(r) ==
    /\ posts' = DeletedPosts(r.ps, r.post.filename)
    /\ IF r.sp.filename = r.post.filename
       THEN SetSelectedPost(NoPost)
       ELSE UNCHANGED <<selectedPost, edContent, edText>>
    /\ successMessage' = "Post deleted successfully!"
    /\ error' = error

\* handleDeletePost after its fetch
CompleteDelete(s) ==
    /\ reqs[s].kind = "delete" /\ reqs[s].stage = "responded"
    /\ IF RespOk(reqs[s].resp)
       THEN DeleteSucceeded(reqs[s])
       ELSE /\ error' = ErrorMessage(reqs[s].resp)
            /\ UNCHANGED <<posts, selectedPost, edContent, edText, successMessage>>
    /\ loading' = FALSE
    /\ reqs' = [reqs EXCEPT ![s] = Idle]
    /\ UNCHANGED <<remote, now, budget, pushes, hist>>
    /\ UNCHANGED codecVars

\* setTimeout(() => setSuccessMessage(null), 3000)
ClearSuccess ==
    /\ successMessage # "null"
    /\ successMessage' = "null"
    /\ UNCHANGED <<remote, now, reqs, budget, pushes, hist>>
    /\ UNCHANGED <<posts, selectedPost, loading, error, edContent, edText>>
    /\ UNCHANGED codecVars

(***************************************************************************)
(* The environment: another writer of the repository, and time.            *)
(***************************************************************************)
ExternalWrite(n, raw) ==
    /\ pushes < MaxExternal
    /\ pushes' = pushes + 1
    /\ remote[n] # [exists |-> TRUE, raw |-> raw]
    /\ remote' = [remote EXCEPT ![n] = [exists |-> TRUE, raw |-> raw]]
    /\ UNCHANGED <<now, reqs, budget, hist>>
    /\ UNCHANGED pageVars
    /\ UNCHANGED codecVars

ExternalDelete(n) ==
    /\ pushes < MaxExternal
    /\ pushes' = pushes + 1
    /\ remote[n].exists
    /\ remote' = [remote EXCEPT ![n] = [exists |-> FALSE, raw |-> <<>>]]
    /\ UNCHANGED <<now, reqs, budget, hist>>
    /\ UNCHANGED pageVars
    /\ UNCHANGED codecVars

Tick ==
    /\ now < MaxClock
    /\ now' = now + 1
    /\ UNCHANGED <<remote, reqs, budget, pushes, hist>>
    /\ UNCHANGED pageVars
    /\ UNCHANGED codecVars

(***************************************************************************)
(* The page and the repository, from the page's construction.              *)
(***************************************************************************)
CodecIdle ==
    /\ cFm = <<>> /\ cBody = <<>> /\ cRaw = <<>>
    /\ cOut = [frontmatter |-> <<>>, content |-> <<>>]
    /\ cLines = <<>>
    /\ cPc = "off"

\* the page with the post list list, the repository rem, and n requests to issue
PageInit(rem, list, n) ==
    /\ remote = rem
    /\ now = 0
    /\ posts = list
    /\ selectedPost = NoPost
    /\ loading = FALSE
    /\ error = "null"
    /\ successMessage = "null"
    /\ edContent = <<>>
    /\ edText = <<>>
    /\ reqs = [s \in Slots |-> Idle]
    /\ budget = n
    /\ pushes = 0
    /\ hist = NoHist

Init == PageInit(InitialRemote, <<>>, MaxIssued) /\ CodecIdle

\* editing, saving and deleting, with every response delivered
SoloNext ==
    \/ \E i \in 1..Len(DirOrder) : SelectPost(i)
    \/ \E t \in TypedTexts : TypeText(t)
    \/ ClickSave
    \/ \E i \in 1..Len(DirOrder) : ClickDelete(i)
    \/ ClearSuccess
    \/ \E s \in Slots : ServePut1(s)
    \/ \E s \in Slots : ServePut2(s)
    \/ \E s \in Slots : ServeDelete1(s)
    \/ \E s \in Slots : ServeDelete2(s)
    \/ \E s \in Slots : CompleteSave(s)
    \/ \E s \in Slots : CompleteDelete(s)

Next ==
    \/ SoloNext
    \/ RefreshClick
    \/ SessionEffect
    \/ \E s \in Slots : ServeList1(s)
    \/ \E s \in Slots : ServeList2(s)
    \/ \E s \in Slots : CompleteList(s)
    \/ Tick
    \/ \E s \in Slots : NetFail(s)
    \/ \E n \in ExternalNames, raw \in ExternalRaws : ExternalWrite(n, raw)
    \/ \E n \in ExternalNames : ExternalDelete(n)

Spec == Init /\ [][Next]_vars

(***************************************************************************)
(* The page after its first load of the repository (a state Spec reaches), *)
(* saving and deleting with no other writer and no lost response.          *)
(***************************************************************************)
\* the post list after a complete, successful fetchPosts of rem at time
LoadedPosts(rem, time) == ValidPosts(MarkdownNames(rem), {}, rem, time)

SoloInit == PageInit(InitialRemote, LoadedPosts(InitialRemote, 0), MaxIssued) /\ CodecIdle

SpecSolo == SoloInit /\ [][SoloNext]_vars

(***************************************************************************)
(* The page from its construction, with either GET handler of the route    *)
(* file serving the list, no other writer and no lost response.            *)
(***************************************************************************)
FallbackNext ==
    \/ SoloNext
    \/ RefreshClick
    \/ SessionEffect
    \/ \E s \in Slots : ServeList1(s)
    \/ \E s \in Slots : ServeList2(s)
    \/ \E s \in Slots : ServeFallback1(s)
    \/ \E s \in Slots : ServeFallback2(s)
    \/ \E s \in Slots : CompleteList(s)

SpecFallback == Init /\ [][FallbackNext]_vars

(***************************************************************************)
(* The page after its first load, saving posts as the editor holds them    *)
(* (no typing) and listing again.                                          *)
(***************************************************************************)
CycleNext ==
    \/ \E i \in 1..Len(DirOrder) : SelectPost(i)
    \/ ClickSave
    \/ RefreshClick
    \/ \E s \in Slots : ServePut1(s)
    \/ \E s \in Slots : ServePut2(s)
    \/ \E s \in Slots : ServeList1(s)
    \/ \E s \in Slots : ServeList2(s)
    \/ \E s \in Slots : CompleteSave(s)
    \/ \E s \in Slots : CompleteList(s)

SpecCycle == SoloInit /\ [][CycleNext]_vars

(***************************************************************************)
(* The routes called directly, by any client that holds the session: the   *)
(* filename of a PUT is whatever the URL carries.                          *)
(***************************************************************************)
\* the filenames a client puts: a listed post, a new post, a file that is not
\* Markdown
ApiNames == {FileA, FileC, FileN}

\* PUT /api/posts/<name> with body {content, frontmatter: {}}
ApiPut(name, content) ==
    /\ FreeSlots # {}
    /\ budget > 0
    /\ budget' = budget - 1
    /\ reqs' = [reqs EXCEPT ![NewSlot] =
           [Idle EXCEPT !.kind = "save", !.stage = "sent",
                        !.sp = [NoPost EXCEPT !.filename = name],
                        !.target = EncodeURIComponent(name), !.content = content]]
    /\ UNCHANGED <<remote, now, pushes, hist>>
    /\ UNCHANGED pageVars
    /\ UNCHANGED codecVars

\* GET /api/posts
ApiList ==
    /\ FreeSlots # {}
    /\ budget > 0
    /\ budget' = budget - 1
    /\ reqs' = [reqs EXCEPT ![NewSlot] = [Idle EXCEPT !.kind = "list", !.stage = "sent"]]
    /\ UNCHANGED <<remote, now, pushes, hist>>
    /\ UNCHANGED pageVars
    /\ UNCHANGED codecVars

\* the client takes the response
ApiReceive(s) ==
    /\ reqs[s].stage = "responded"
    /\ reqs' = [reqs EXCEPT ![s] = Idle]
    /\ UNCHANGED <<remote, now, budget, pushes, hist>>
    /\ UNCHANGED pageVars
    /\ UNCHANGED codecVars

ApiNext ==
    \/ \E n \in ApiNames, t \in TypedTexts : ApiPut(n, t)
    \/ ApiList
    \/ \E s \in Slots : ServePut1(s)
    \/ \E s \in Slots : ServePut2(s)
    \/ \E s \in Slots : ServeList1(s)
    \/ \E s \in Slots : ServeList2(s)
    \/ \E s \in Slots : ApiReceive(s)

SpecApi == Init /\ [][ApiNext]_vars

(***************************************************************************)
(* The page with three posts loaded, saving them.                          *)
(***************************************************************************)
PushRemote ==
    [n \in DirNames |->
        IF n = FileC THEN [exists |-> TRUE, raw |-> <<"w">>] ELSE InitialRemote[n]]

PushInit == PageInit(PushRemote, LoadedPosts(PushRemote, 0), MaxPushed) /\ CodecIdle

PushNext ==
    \/ \E i \in 1..Len(DirOrder) : SelectPost(i)
    \/ ClickSave
    \/ \E s \in Slots : ServePut1(s)
    \/ \E s \in Slots : ServePut2(s)
    \/ \E s \in Slots : CompleteSave(s)

SpecPush == PushInit /\ [][PushNext]_vars

(***************************************************************************)
(* The codec on its own: encode a front matter and a body, decode the      *)
(* result.                                                                 *)
(***************************************************************************)
\* longest string value, most array elements, most header entries of an input
MaxStrLen == 2
MaxArrLen == 2
MaxFmLen == 1
\* longest body of an input
MaxBodyInputLen == 2

SeqsUpTo(S, n) == UNION {[1..k -> S] : k \in 0..n}

KeyInputs == {<<"t">>, <<"g">>}
StringInputs == SeqsUpTo({"a", DQ, "["}, MaxStrLen)
ElemInputs == {<<>>, <<"a">>}
ValueInputs ==
    {Str(v) : v \in StringInputs}
    \cup {Arr([i \in 1..Len(es) |-> Str(es[i])]) : es \in SeqsUpTo(ElemInputs, MaxArrLen)}
BodyInputs == SeqsUpTo({"x", NL}, MaxBodyInputLen)

\* front matters with distinct keys
FmInputs ==
    {fm \in SeqsUpTo([key : KeyInputs, value : ValueInputs], MaxFmLen) :
        \A i, j \in 1..Len(fm) : fm[i].key = fm[j].key => i = j}

CodecInit ==
    /\ PageInit(InitialRemote, <<>>, MaxIssued)
    /\ cFm \in FmInputs
    /\ cBody \in BodyInputs
    /\ cRaw = <<>>
    /\ cOut = [frontmatter |-> <<>>, content |-> <<>>]
    /\ cLines = <<>>
    /\ cPc = "input"

CodecEncode ==
    /\ cPc = "input"
    /\ cRaw' = Encode(cFm, cBody)
    /\ cPc' = "encoded"
    /\ UNCHANGED <<cFm, cBody, cOut, cLines>>
    /\ UNCHANGED syncVars

CodecDecode ==
    /\ cPc = "encoded"
    /\ cOut' = Decode(cRaw)
    /\ cPc' = "decoded"
    /\ UNCHANGED <<cFm, cBody, cRaw, cLines>>
    /\ UNCHANGED syncVars

CodecNext == CodecEncode \/ CodecDecode

SpecCodec == CodecInit /\ [][CodecNext]_vars

(***************************************************************************)
(* The decoder on documents: files as the list route reads them, built     *)
(* from header lines, marker lines and a body, then decoded.               *)
(***************************************************************************)
\* most header lines of a document
MaxHeaderLines == 2

\* a header line: its text, what it is, and the key and value it writes
HeaderLine(text, kind, key, value) ==
    [text |-> text, kind |-> kind, key |-> key, value |-> value]

DocKeys == {<<"title">>, <<"tags">>}
Pads == {<<>>, <<SP>>}
Quotes == {<<>>, <<DQ>>, <<SQ>>}
ScalarTexts == {<<"Hi">>, <<"b", ":", "c">>, <<>>}
ArrayTexts == {<<>>, <<"x">>, <<"x", "y">>}

\* the text of a key: value line, with optional blanks around key and value
EntryText(pad, key, valueText) ==
    pad \o key \o pad \o <<":", SP>> \o valueText \o pad

\* the text of an array of strings: ["x", "y"]
ArrayText(es) ==
    <<"[">> \o JoinWith([i \in 1..Len(es) |-> <<DQ, es[i], DQ>>], <<",", SP>>) \o <<"]">>

\* key: value lines with a scalar, bare or in double or single quotes
ScalarLines ==
    {HeaderLine(EntryText(p, k, q \o v \o q), "entry", k, Str(v)) :
        p \in Pads, k \in DocKeys, q \in Quotes, v \in ScalarTexts}

\* key: value lines with an array of strings
ArrayLines ==
    {HeaderLine(EntryText(<<>>, k, ArrayText(es)), "entry", k,
                Arr([i \in 1..Len(es) |-> Str(<<es[i]>>)])) :
        k \in DocKeys, es \in ArrayTexts}

\* key: value lines whose value is quoted twice or unevenly, is bracketed but
\* is not an array of strings, or holds a colon right after the key
LooseLines ==
    {HeaderLine(<<"k", ":", SP, DQ, DQ, "v", DQ, DQ>>, "loose", <<"k">>, Str(<<DQ, "v", DQ>>)),
     HeaderLine(<<"k", ":", SP, SQ, DQ, "v", DQ, SQ>>, "loose", <<"k">>, Str(<<DQ, "v", DQ>>)),
     HeaderLine(<<"k", ":", SP, DQ, "v", SQ>>, "loose", <<"k">>, Str(<<DQ, "v", SQ>>)),
     HeaderLine(<<"k", ":", SP, "[", "x">>, "loose", <<"k">>, Str(<<"[", "x">>)),
     HeaderLine(<<"k", ":", SP, "[", "x", "]">>, "loose", <<"k">>, Str(<<"[", "x", "]">>)),
     HeaderLine(<<"k", ":", SP, DQ, "[", DQ, "a", DQ, "]", DQ>>, "loose", <<"k">>,
                Arr(<<Str(<<"a">>)>>)),
     HeaderLine(<<"k", ":", SP, "[", "1", "]">>, "loose", <<"k">>, Arr(<<Num(<<"1">>)>>)),
     HeaderLine(<<"k", ":", SP, "[", "[", DQ, "a", DQ, "]", "]">>, "loose", <<"k">>,
                Arr(<<Arr(<<Str(<<"a">>)>>)>>)),
     HeaderLine(<<"k", ":", "v", ":">>, "loose", <<"k">>, Str(<<"v", ":">>))}

\* lines that write nothing: blank lines, comments, lines without a key
SkippedLines ==
    {HeaderLine(<<>>, "blank", <<>>, Str(<<>>)),
     HeaderLine(<<SP>>, "blank", <<>>, Str(<<>>)),
     HeaderLine(<<"#", SP, "c", ":", SP, "d">>, "comment", <<>>, Str(<<>>)),
     HeaderLine(<<"x">>, "nokey", <<>>, Str(<<>>)),
     HeaderLine(<<":", SP, "v">>, "nokey", <<>>, Str(<<>>))}

HeaderLineInputs == ScalarLines \cup ArrayLines \cup LooseLines \cup SkippedLines

\* headers of one to MaxHeaderLines lines
HeaderInputs == UNION {[1..n -> HeaderLineInputs] : n \in 1..MaxHeaderLines}

\* bodies: empty, one line, starting with a newline, holding a marker line
DocBodies ==
    {<<>>, <<"Body text">>, <<NL, "B">>, <<"B", NL>> \o Dashes \o <<NL, "C">>}

HeaderText(lines) == JoinWith([i \in 1..Len(lines) |-> lines[i].text], <<NL>>)

\* a file with a header: marker line, header lines, marker line, body
HeadedDoc(lines, body) ==
    Dashes \o <<NL>> \o HeaderText(lines) \o <<NL>> \o Dashes \o <<NL>> \o body

\* a file that ends with its closing marker line, with no newline after it
HeadedEofDoc(lines) ==
    Dashes \o <<NL>> \o HeaderText(lines) \o <<NL>> \o Dashes

\* files without a leading header: empty, body only, text before the opening
\* marker, an opening marker that is never closed, two marker lines with
\* nothing between them
HeaderlessDocs ==
    {<<>>,
     <<"B">>,
     <<"B", NL>> \o Dashes \o <<NL, "k", ":", SP, "v", NL>> \o Dashes \o <<NL, "C">>,
     <<SP>> \o Dashes \o <<NL, "k", ":", SP, "v", NL>> \o Dashes \o <<NL, "C">>,
     Dashes \o <<NL, "k", ":", SP, "v", NL, "C">>,
     Dashes \o <<NL>> \o Dashes \o <<NL, "C">>}

DecodeInit ==
    /\ PageInit(InitialRemote, <<>>, MaxIssued)
    /\ cFm = <<>>
    /\ \/ /\ cLines \in HeaderInputs
          /\ cBody \in DocBodies
          /\ cRaw = HeadedDoc(cLines, cBody)
       \/ /\ cLines \in HeaderInputs
          /\ cBody = <<>>
          /\ cRaw = HeadedEofDoc(cLines)
       \/ /\ cLines = <<>>
          /\ cBody = <<>>
          /\ cRaw \in HeaderlessDocs
    /\ cOut = [frontmatter |-> <<>>, content |-> <<>>]
    /\ cPc = "document"

\* the list route decodes the file it fetched
DocDecode ==
    /\ cPc = "document"
    /\ cOut' = Decode(cRaw)
    /\ cPc' = "documentDecoded"
    /\ UNCHANGED <<cFm, cBody, cRaw, cLines>>
    /\ UNCHANGED syncVars

DecodeNext == DocDecode

SpecDecode == DecodeInit /\ [][DecodeNext]_vars

(***************************************************************************)
(* Claims.                                                                 *)
(***************************************************************************)

\* C1: decoding the text the encoder produced returns the front matter and
\* the body that were encoded: decode(encode(fm, body)) == (fm, body).
C1_RoundTrip ==
    cPc = "decoded" => cOut = [frontmatter |-> cFm, content |-> cBody]

\* the file a save or delete request addresses
TargetOf(r) == DecodeURIComponent(r.target)

\* the step completes, in the page, the request of slot s
Completes(s) == reqs[s].stage = "responded" /\ reqs'[s] = Idle

\* C2: a save whose client-held token (the sha of the selected post, from the
\* last list or save) differs from the file's current sha is answered with a
\* failure and leaves the remote file unchanged.
C2_StaleSaveConflicts ==
    [][\A s \in Slots :
          (/\ reqs[s].kind = "save" /\ reqs[s].stage = "probed"
           /\ reqs'[s].stage = "responded"
           /\ remote[TargetOf(reqs[s])].exists
           /\ reqs[s].sp.sha # Sha(remote[TargetOf(reqs[s])].raw))
          => /\ remote' = remote
             /\ ~RespOk(reqs'[s].resp)]_vars

\* the selected post carries text in the editor that has not been saved
Unsynced == selectedPost # NoPost /\ edText # selectedPost.content

C4_NoFalseSync ==
    Quiescent =>
        \A i \in 1..Len(posts) :
            LET w == hist.last[posts[i].filename]
            IN (posts[i].sha \in hist.tokens /\ w.kind = "put")
               => posts[i].content = w.content

\* C5: when a successful save completes, the selected post and every list
\* entry of the saved file hold the sha the save route returned (a token of the
\* remote write) and the content that was written.
C5_SaveStoresToken ==
    [][\A s \in Slots :
          (/\ reqs[s].kind = "save" /\ Completes(s) /\ RespOk(reqs[s].resp))
          => /\ reqs[s].resp.sha \in hist.tokens
             /\ selectedPost'.filename = reqs[s].sp.filename
             /\ selectedPost'.sha = reqs[s].resp.sha
             /\ selectedPost'.content = reqs[s].content
             /\ \A i \in 1..Len(posts') :
                   posts'[i].filename = reqs[s].sp.filename
                   => /\ posts'[i].sha = reqs[s].resp.sha
                      /\ posts'[i].content = reqs[s].content]_vars

\* a save has succeeded and the page holds its token in both places
C5_Witness ==
    /\ Quiescent
    /\ successMessage = "Post saved successfully!"
    /\ selectedPost # NoPost
    /\ selectedPost.sha \in hist.tokens
    /\ selectedPost.sha # Sha(InitialRemote[selectedPost.filename].raw)
    /\ \E i \in 1..Len(posts) :
          /\ posts[i].filename = selectedPost.filename
          /\ posts[i].sha = selectedPost.sha
          /\ posts[i].content = selectedPost.content

\* the files the save route has written
Written == {f \in PostNames : hist.last[f].kind = "put"}

\* C6: when MaxPushed posts are saved, one save each, and exactly one save
\* fails, then once all have completed every other post's list entry holds the
\* sha and content of its write, and the failing post's entry holds its old sha.
C6_PartialFailureIsolated ==
    (/\ Quiescent /\ budget = 0
     /\ Cardinality(hist.failed) = 1
     /\ Cardinality(Written) = MaxPushed - 1
     /\ Written \cap hist.failed = {})
    => /\ \A f \in Written :
             \E i \in 1..Len(posts) :
                /\ posts[i].filename = f
                /\ posts[i].sha = hist.last[f].sha
                /\ posts[i].content = hist.last[f].content
       /\ \A f \in hist.failed :
             \E i \in 1..Len(posts) :
                /\ posts[i].filename = f
                /\ posts[i].sha = Sha(PushRemote[f].raw)

\* C7: a pull issued and completed while the list is the result of a pull of
\* the repository as it is, and that returns a pull of the same repository,
\* leaves the list as it was, lastModified included.
C7_PullIdempotent ==
    [][\A s \in Slots :
          (/\ reqs[s].kind = "list" /\ Completes(s) /\ RespOk(reqs[s].resp)
           /\ reqs[s].ps = posts
           /\ \E t \in 0..MaxClock : posts = LoadedPosts(remote, t)
           /\ \E t \in 0..MaxClock : reqs[s].resp.posts = LoadedPosts(remote, t))
          => posts' = posts]_vars

\* C8: issuing a save leaves the list, the selected post and the editor's text
\* as they are, and a save that fails (any failed response, or a lost one)
\* leaves them as they are too and sets the page's error to the failure's
\* message.
C8_FailedSaveKeepsLocal ==
    [][/\ (\E s \in Slots : reqs[s].kind = "none" /\ reqs'[s].kind = "save")
          => /\ posts' = posts
             /\ selectedPost' = selectedPost
             /\ edText' = edText
       /\ \A s \in Slots :
             (/\ reqs[s].kind = "save" /\ Completes(s) /\ ~RespOk(reqs[s].resp))
             => /\ posts' = posts
                /\ selectedPost' = selectedPost
                /\ edText' = edText
                /\ edContent' = edContent
                /\ successMessage' = successMessage
                /\ error' = reqs[s].resp.error
                /\ error' # "null"]_vars

\* a save of edited text has failed: the error is shown, the post is as it was
\* when the list was loaded and the editor still holds the text
C8_Witness ==
    /\ Quiescent
    /\ error = "Failed to save post"
    /\ selectedPost.filename = FileA
    /\ selectedPost.sha = Sha(InitialRemote[FileA].raw)
    /\ edText = <<"p">>
    /\ remote = InitialRemote

\* C9: a delete of a post whose stored sha differs from the file's current sha
\* is answered with a failure and does not delete the remote file.
C9_StaleDeleteConflicts ==
    [][\A s \in Slots :
          (/\ reqs[s].kind = "delete" /\ reqs[s].stage = "probed"
           /\ reqs'[s].stage = "responded"
           /\ remote[TargetOf(reqs[s])].exists
           /\ reqs[s].post.sha # Sha(remote[TargetOf(reqs[s])].raw))
          => /\ remote' = remote
             /\ ~RespOk(reqs'[s].resp)]_vars

\* C10: the answer to a delete of a file that is absent on the remote is a
\* NotFound: its status and error are not those of the route's catch-all
\* failure.
C10_DeleteAbsentNotFound ==
    \A s \in Slots :
        (/\ reqs[s].kind = "delete" /\ reqs[s].stage = "responded"
         /\ reqs[s].probe = "absent"
         /\ reqs[s].resp # NetErr)
        => ~(/\ reqs[s].resp.status = DeleteFailed("").status
             /\ reqs[s].resp.error = DeleteFailed("").error)

C11_NoTokenUnauthorized ==
    \A s \in Slots :
        (reqs[s].stage = "responded" /\ reqs[s].session = "none")
        => /\ reqs[s].resp.status = 401
           /\ reqs[s].resp.posts = <<>>
           /\ reqs[s].probe = "none"
           /\ reqs[s].names = <<>>

\* the post's sha is no token of the provider: none, or 'local'
LacksToken(post) == post.sha \in {NoSha, LocalSha}

\* C12: a save of a post that lacks a revision token never updates an existing
\* remote file.
C12_NoTokenNeverUpdates ==
    [][\A s \in Slots :
          (/\ reqs[s].kind = "save" /\ reqs[s].stage = "probed"
           /\ reqs'[s].stage = "responded"
           /\ LacksToken(reqs[s].sp)
           /\ remote[TargetOf(reqs[s])].exists)
          => remote' = remote]_vars

\* C14: every post a list response holds, from the GitHub path or from the
\* local-file fallback, and every post of the page's list, has a filename that
\* ends in .md or .mdx.
C14_OnlyMarkdownListed ==
    LET Md(name) == \/ EndsWith(name, <<".", "m", "d">>)
                    \/ EndsWith(name, <<".", "m", "d", "x">>)
    IN /\ \A s \in Slots :
             \A i \in 1..Len(reqs[s].resp.posts) : Md(reqs[s].resp.posts[i].filename)
       /\ \A i \in 1..Len(posts) : Md(posts[i].filename)

\* two list responses are held, one from the provider and one from the local
\* files, while both directories hold a file that is not Markdown
C14_Witness ==
    /\ remote[FileN].exists /\ LocalCheckout[FileN].exists
    /\ \E s, t \in Slots :
          /\ reqs[s].stage = "responded" /\ reqs[t].stage = "responded"
          /\ Len(reqs[s].resp.posts) = 2 /\ Len(reqs[t].resp.posts) = 2
          /\ reqs[s].resp.posts[1].sha = LocalSha
          /\ reqs[t].resp.posts[1].sha = Sha(remote[FileA].raw)

\* C15: encoding with an empty front matter emits no header block: the encoded
\* text is the body.
C15_EmptyFrontMatterNoHeader ==
    (cPc \in {"encoded", "decoded"} /\ cFm = <<>>) => cRaw = cBody

\* a body of two characters has been encoded with an empty front matter
C15_Witness ==
    cPc = "encoded" /\ cFm = <<>> /\ cBody = <<"x", NL>> /\ cRaw = <<"x", NL>>

\* the header lines that write a key
KeyedLines(lines) == {i \in 1..Len(lines) : lines[i].kind \in {"entry", "loose"}}

\* the mapping fm holds, for every key the lines write, the value of the last
\* line that writes it, and nothing else
MapsAs(fm, lines) ==
    /\ {fm[j].key : j \in 1..Len(fm)} = {lines[i].key : i \in KeyedLines(lines)}
    /\ \A i, j \in 1..Len(fm) : fm[i].key = fm[j].key => i = j
    /\ \A i \in KeyedLines(lines) :
          (\A k \in KeyedLines(lines) : k > i => lines[k].key # lines[i].key)
          => \E j \in 1..Len(fm) : fm[j].key = lines[i].key /\ fm[j].value = lines[i].value

\* every line of the header is a key: value line with a scalar or an array of
\* strings
WellFormedHeader(lines) == \A i \in 1..Len(lines) : lines[i].kind = "entry"

\* C16: decoding a document made of a marker line, key: value lines and a
\* closing marker line returns the mapping of each key to its unquoted scalar
\* or its array of strings, and as body exactly the text after the closing
\* marker line.
C16_DecodesHeadedDocument ==
    (cPc = "documentDecoded" /\ cLines # <<>> /\ WellFormedHeader(cLines))
    => /\ MapsAs(cOut.frontmatter, cLines)
       /\ cOut.content = cBody

\* a header none of whose lines can be read as key: value, and that is not
\* only blank lines and comments
UnparseableHeader(lines) ==
    /\ KeyedLines(lines) = {}
    /\ \E i \in 1..Len(lines) : lines[i].kind = "nokey"

\* C17: when the input has no leading header block, or its header cannot be
\* parsed, decode returns an empty front matter and the full raw input as the
\* body.
C17_MalformedKeepsRaw ==
    (cPc = "documentDecoded" /\ (cLines = <<>> \/ UnparseableHeader(cLines)))
    => cOut = [frontmatter |-> <<>>, content |-> cRaw]

\* C18: per header line, decode splits on the first colon, trims key and
\* value, strips one layer of matching quotes, and parses a value in square
\* brackets as a JSON array, keeping the raw string when that fails.
C18_LineParsing ==
    (cPc = "documentDecoded" /\ cLines # <<>> /\ cRaw = HeadedDoc(cLines, cBody))
    => MapsAs(cOut.frontmatter, cLines)

\* a header of a doubly quoted value and a padded, quoted value with a colon
\* has been decoded
C18_Witness ==
    /\ cPc = "documentDecoded"
    /\ cRaw = HeadedDoc(cLines, <<"Body text">>)
    /\ Len(cLines) = 2
    /\ cLines[1].text = <<"k", ":", SP, DQ, DQ, "v", DQ, DQ>>
    /\ cLines[2].text = <<SP, "title", SP, ":", SP, DQ, "b", ":", "c", DQ, SP>>
    /\ cOut.frontmatter = <<[key |-> <<"k">>, value |-> Str(<<DQ, "v", DQ>>)],
                            [key |-> <<"title">>, value |-> Str(<<"b", ":", "c">>)]>>

\* a front-matter value is a string or an array of strings
StringOrStrings(value) ==
    \/ value.t = "str"
    \/ /\ value.t = "arr"
       /\ \A i \in 1..Len(value.v) : value.v[i].t = "str"

\* C19: every value of a decoded front matter is a string or an array whose
\* elements are all strings.
C19_OnlyStringsAndStringArrays ==
    cPc = "documentDecoded"
    => \A i \in 1..Len(cOut.frontmatter) : StringOrStrings(cOut.frontmatter[i].value)

\* what a page handler reads from a response: response.ok and, of a failure,
\* errorData.error (the message of a rejected fetch)
CallerSees(resp) == [ok |-> RespOk(resp), message |-> ErrorMessage(resp)]

\* a save or delete answered after the provider refused it for its rate limit
RateLimited(r) ==
    /\ r.kind \in {"save", "delete"} /\ r.stage = "responded"
    /\ r.resp.details = "API rate limit exceeded"

\* a save or delete that failed for another reason
OtherFailure(r) ==
    /\ r.kind \in {"save", "delete"} /\ r.stage = "responded"
    /\ ~RespOk(r.resp)
    /\ r.resp.details # "API rate limit exceeded"

\* C20: a rate-limited save or delete is reported to the caller with an outcome
\* that differs from the outcome of the same operation failing for any other
\* reason (conflict, not found, unauthorized, network or server failure).
C20_RateLimitDistinguishable ==
    \A s, t \in Slots :
        (RateLimited(reqs[s]) /\ OtherFailure(reqs[t]) /\ reqs[s].kind = reqs[t].kind)
        => CallerSees(reqs[s].resp) # CallerSees(reqs[t].resp)

\* no save, no delete and no other writer has changed the repository so far
NothingWritten ==
    /\ pushes = 0
    /\ \A f \in DirNames : hist.last[f].kind = "none"

\* the list ps holds the file f of rem with its decoded content and front
\* matter and its sha
HoldsRemote(ps, f, rem) ==
    \E i \in 1..Len(ps) :
        /\ ps[i].filename = f
        /\ ps[i].content = Decode(rem[f].raw).content
        /\ ps[i].frontmatter = Decode(rem[f].raw).frontmatter
        /\ ps[i].sha = Sha(rem[f].raw)

\* C21: after a successful pull (fetchPosts with an ok response) of a
\* repository nobody has written to meanwhile, every remote post is in the
\* local list with the remote content, front matter and token, whether it was
\* in the list before or not.
C21_PullBringsRemote ==
    [][\A s \in Slots :
          (/\ reqs[s].kind = "list" /\ Completes(s) /\ RespOk(reqs[s].resp)
           /\ NothingWritten)
          => \A f \in PostNames : remote[f].exists => HoldsRemote(posts', f, remote)]_vars

\* C22: in every state reachable by pulls, saves and deletes, overlapping or
\* not, the local post list holds at most one post per filename.
C22_FilenamesUnique ==
    \A i, j \in 1..Len(posts) : posts[i].filename = posts[j].filename => i = j

\* a pull has filled the list with two posts and a save of one of them has
\* completed after it
C22_Witness ==
    /\ Quiescent /\ budget = 0
    /\ Len(posts) = 2
    /\ hist.last[FileA].kind = "put"
    /\ \E i \in 1..Len(posts) : posts[i].filename = FileA /\ posts[i].sha = hist.last[FileA].sha

\* C23: when a delete of post p completes successfully, p's filename is absent
\* from the list, every other post of the list is kept as it was, and the
\* selection is cleared if p was the selected post and kept otherwise.
C23_DeleteFrame ==
    [][\A s \in Slots :
          (reqs[s].kind = "delete" /\ Completes(s) /\ RespOk(reqs[s].resp))
          => LET p == reqs[s].post.filename
             IN /\ \A j \in 1..Len(posts') : posts'[j].filename # p
                /\ \A i \in 1..Len(posts) :
                      posts[i].filename # p => \E j \in 1..Len(posts') : posts'[j] = posts[i]
                /\ \A j \in 1..Len(posts') : \E i \in 1..Len(posts) : posts[i] = posts'[j]
                /\ selectedPost' = IF selectedPost.filename = p THEN NoPost
                                   ELSE selectedPost]_vars

\* C24: the completion of a save, successful or not, leaves the selection on
\* the post the user has selected: when another post than the saved one is
\* selected, it stays selected with its content and sha.
C24_SaveKeepsSelection ==
    [][\A s \in Slots :
          (reqs[s].kind = "save" /\ Completes(s))
          => /\ selectedPost'.filename = selectedPost.filename
             /\ selectedPost.filename # reqs[s].sp.filename
                => selectedPost' = selectedPost]_vars

\* the file a save or delete handler works on
HandledFile(r) == IF r.kind = "save" THEN r.sp.filename ELSE r.post.filename

\* C25: the completion of a save or delete applies to the list as it is then:
\* it brings back no post that is no longer in the list, and it leaves the
\* entry of every post other than its own as it is.
C25_CompletionsUseCurrentList ==
    [][\A s \in Slots :
          (reqs[s].kind \in {"save", "delete"} /\ Completes(s))
          => /\ \A j \in 1..Len(posts') :
                   \E i \in 1..Len(posts) : posts[i].filename = posts'[j].filename
             /\ \A i \in 1..Len(posts), j \in 1..Len(posts') :
                   (/\ posts[i].filename # HandledFile(reqs[s])
                    /\ posts'[j].filename = posts[i].filename)
                   => posts'[j] = posts[i]]_vars

\* C26: text typed into the editor while a save of the selected post is in
\* flight is still the editor's text after that save completes.
C26_TypedTextSurvivesSave ==
    [][\A s \in Slots :
          (/\ reqs[s].kind = "save" /\ Completes(s)
           /\ selectedPost = reqs[s].sp
           /\ edText # reqs[s].content)
          => edText' = edText]_vars

\* C27: a post written by the save route and then read back by the list route
\* comes back with the body that was saved.
C27_SaveListFixedPoint ==
    \A s \in Slots :
        (reqs[s].kind = "list" /\ reqs[s].stage = "responded" /\ RespOk(reqs[s].resp))
        => \A i \in 1..Len(reqs[s].resp.posts) :
              LET e == reqs[s].resp.posts[i]
              IN (hist.last[e.filename].kind = "put" /\ e.sha = hist.last[e.filename].sha)
                 => e.content = hist.last[e.filename].content

\* the route of slot s finishes the per-file fetches of a list and answers
FetchesAnswered(s) ==
    /\ reqs[s].kind = "list"
    /\ reqs[s].stage \in {"listed", "listedFallback"}
    /\ reqs'[s].stage = "responded"

C29_ProbeDecidesWrite ==
    [][\A s \in Slots :
          reqs[s].kind = "save"
          => LET f == TargetOf(reqs[s])
             IN /\ (reqs[s].stage = "sent" /\ reqs'[s].probe = "absent")
                   => /\ ~remote[f].exists
                      /\ reqs'[s].stage = "probed" /\ reqs'[s].currentSha = NoSha
                      /\ remote' = remote
                /\ (reqs[s].stage = "sent" /\ reqs'[s].probe = "found")
                   => /\ remote[f].exists
                      /\ reqs'[s].stage = "probed"
                      /\ reqs'[s].currentSha = Sha(remote[f].raw)
                      /\ remote' = remote
                /\ (reqs[s].stage = "sent" /\ reqs'[s].probe = "error")
                   => /\ reqs'[s].stage = "responded" /\ ~RespOk(reqs'[s].resp)
                      /\ remote' = remote
                /\ (reqs[s].stage = "probed" /\ reqs'[s].stage = "responded"
                    /\ remote'[f] # remote[f])
                   => \/ reqs[s].probe = "absent" /\ ~remote[f].exists
                      \/ /\ reqs[s].probe = "found" /\ remote[f].exists
                         /\ reqs[s].currentSha = Sha(remote[f].raw)]_vars

\* a save whose probe found no file has created the file
C29_Witness ==
    \E s \in Slots :
        /\ reqs[s].kind = "save" /\ reqs[s].stage = "responded"
        /\ reqs[s].probe = "absent" /\ reqs[s].currentSha = NoSha
        /\ RespOk(reqs[s].resp)
        /\ remote[TargetOf(reqs[s])].exists
        /\ reqs[s].resp.sha = Sha(remote[TargetOf(reqs[s])].raw)

\* the file f holds the last write the save route made to it
HoldsLastWrite(f) ==
    /\ hist.last[f].kind = "put"
    /\ remote[f].exists
    /\ Sha(remote[f].raw) = hist.last[f].sha

\* C30: a list whose directory listing is current and whose every file fetch
\* succeeds returns every file that holds the last write of the save route,
\* under its filename and with the sha that write returned.
C30_UpsertedIsListed ==
    [][\A s \in Slots :
          (/\ FetchesAnswered(s) /\ RespOk(reqs'[s].resp)
           /\ reqs[s].names = MarkdownNames(remote)
           /\ Len(reqs'[s].resp.posts) = Len(reqs[s].names))
          => \A f \in DirNames :
                HoldsLastWrite(f)
                => \E i \in 1..Len(reqs'[s].resp.posts) :
                      /\ reqs'[s].resp.posts[i].filename = f
                      /\ reqs'[s].resp.posts[i].sha = hist.last[f].sha]_vars

====
